---- MODULE Spec2Model ----
(***************************************************************************)
(* Model of scripts/generate_engineering_csv.py: a batch generator that    *)
(* writes four related CSV tables (parts, assemblies, measurements,        *)
(* supplier relationships) sharing the key part_id.                        *)
(*                                                                         *)
(* Time is counted in ticks (TicksPerSecond ticks to the second) from an   *)
(* arbitrary epoch; floats are fixed-point numbers in units of 1/10000.    *)
(* The process-global random source is a deterministic generator: its      *)
(* state after n draws is a function of the state it was seeded with.      *)
(***************************************************************************)
EXTENDS Integers, Sequences, FiniteSets, TLC

\* ------------------------------------------------------------- bounds
\* Largest row count a run may be given (the smallest is -1).
MaxCount == 2
\* Seeds range over 0..MaxSeed.
MaxSeed == 1
\* The clock reads 0..MaxClock ticks.
MaxClock == 2
\* Resolution of the clock below one second.
TicksPerSecond == 2
\* The random source has the states 0..RngMax.
RngMax == 15

Runs == 1..2

\* ------------------------------------------------------ lookup tables
MATERIALS ==
  <<"Aluminum", "Steel", "Titanium", "Carbon Fiber", "ABS Plastic", "Ceramic">>

OPERATORS == <<"Alice", "Bob", "Charlie", "Dina", "Evelyn", "Frank">>

ASSEMBLY_STEPS ==
  <<"Fasten bolts", "Apply adhesive", "Install wiring", "Torque calibration",
    "Visual inspection">>

MEASUREMENT_TYPES ==
  << <<"Length", "mm">>, <<"Mass", "kg">>, <<"Temperature", "C">>,
     <<"Pressure", "kPa">>, <<"Voltage", "V">> >>

SUPPLIERS ==
  <<"Acme Components", "Orbital Supplies", "Precision Parts Co.",
    "Rocketry Wholesale", "Titan Manufacturing">>

\* --------------------------------------------------------- time, text
\* timedelta(days=n), timedelta(hours=n), in ticks
Days(n) == n * 86400 * TicksPerSecond
Hours(n) == n * 3600 * TicksPerSecond

\* datetime.isoformat(timespec="seconds"): the sub-second part is dropped.
isoformat(t) ==
  LET sec == t \div TicksPerSecond
      tod == sec % 86400
  IN  [date |-> sec \div 86400,
       hh |-> tod \div 3600,
       mm |-> (tod % 3600) \div 60,
       ss |-> tod % 60]

\* The decimal digits of n >= 0, most significant first (at least one digit).
RECURSIVE Digits(_)
Digits(n) == IF n < 10 THEN <<n>> ELSE Append(Digits(n \div 10), n % 10)

RECURSIVE ZeroPad(_, _)
ZeroPad(ds, width) == IF Len(ds) >= width THEN ds ELSE ZeroPad(<<0>> \o ds, width)

\* A defect: the identifier is formatted without the zero padding.
MutFormatIdNoPad(prefix, idx) == [prefix |-> prefix, digits |-> Digits(idx)]

\* f"{prefix}-{idx:06d}"
FormatId(prefix, idx) == [prefix |-> prefix, digits |-> ZeroPad(Digits(idx), 6)]

\* f"{x:.3f}" and f"{x:.2f}" of a fixed-point x (units of 1/10000), rounded to
\* thousandths and hundredths
Format3f(x) == (x + 5) \div 10
Format2f(x) == (x + 50) \div 100

\* ------------------------------------------------------ random source
\* One step of the generator (random.random(), randint, uniform and choice each
\* advance it once).
NextRand(x) == (5 * x + 3) % (RngMax + 1)

\* random.seed(seed)
SeedState(seed) == (7 * seed + 1) % (RngMax + 1)

\* random.randint(a, b) from the raw draw u: a <= result <= b
Randint(a, b, u) == a + (u * (b - a)) \div RngMax

\* random.uniform(a, b) from the raw draw u
Uniform(a, b, u) == a + ((b - a) * u) \div (RngMax + 1)

\* random.choice(sequence) on a non-empty sequence
choice(sequence, u) == sequence[1 + (u * Len(sequence)) \div (RngMax + 1)]

\* ------------------------------------------------------------ records
\* Part.to_row
PartToRow(p) ==
  <<p.part_id, p.part_number, p.description, Format3f(p.weight_kg), p.material,
    isoformat(p.created_at)>>

\* Assembly.to_row
AssemblyToRow(a) ==
  <<a.assembly_id, a.part_id, a.assembly_step, Format2f(a.torque_nm), a.operator,
    isoformat(a.timestamp)>>

\* Measurement.to_row
MeasurementToRow(m) ==
  <<m.measurement_id, m.part_id, m.measurement_type, Format3f(m.value), m.units,
    isoformat(m.measured_at)>>

\* SupplierRelationship.to_row (str(lead_time_days) is the digits of the integer)
SupplierToRow(s) ==
  <<s.supplier_part_id, s.part_id, s.supplier_name, Format2f(s.cost_usd),
    Digits(s.lead_time_days), isoformat(s.qualified_on)>>

\* (x.to_row() for x in xs), consumed in order
RECURSIVE Rows(_, _)
Rows(xs, table) ==
  IF xs = <<>> THEN <<>>
  ELSE <<CASE table = "parts" -> PartToRow(Head(xs))
           [] table = "assemblies" -> AssemblyToRow(Head(xs))
           [] table = "measurements" -> MeasurementToRow(Head(xs))
           [] OTHER -> SupplierToRow(Head(xs))>> \o Rows(Tail(xs), table)

\* --------------------------------------------------------- generators
\* Every generator returns [raised, result, rng]: the exception it raised
\* ("none" when it returned), the list it returned and the state it left the
\* random source in.

\* The body of generate_parts' loop for one idx; u is the state of the random
\* source before it.
MakePart(idx, base_date, u) ==
  LET u1 == NextRand(u)
      u2 == NextRand(u1)
      u3 == NextRand(u2)
      u4 == NextRand(u3)
  IN  [rec |-> [part_id |-> FormatId("PART", idx),
                part_number |-> [prefix |-> "PN", n |-> Randint(10000, 99999, u1)],
                description |-> [text |-> "Component", n |-> idx],
                weight_kg |-> Uniform(1000, 750000, u2),
                material |-> choice(MATERIALS, u3),
                created_at |-> base_date + Days(Randint(0, 365, u4))],
       rng |-> u4]

RECURSIVE generate_parts_loop(_, _, _, _, _)
generate_parts_loop(idx, count, base_date, acc, u) ==
  IF idx > count THEN [raised |-> "none", result |-> acc, rng |-> u]
  ELSE LET made == MakePart(idx, base_date, u)
       IN  generate_parts_loop(idx + 1, count, base_date, Append(acc, made.rec),
                               made.rng)

\* A variant: generate_parts rejects a negative count.
MutGeneratePartsRejectsNegative(count, clock, u) ==
  IF count < 0 THEN [raised |-> "ValueError", result |-> <<>>, rng |-> u]
  ELSE generate_parts_loop(1, count, clock - Days(365), <<>>, u)

\* generate_parts(count), with datetime.now() reading clock
generate_parts(count, clock, u) ==
  generate_parts_loop(1, count, clock - Days(365), <<>>, u)

\* A defect: the foreign key is built from the loop index, not taken from the
\* chosen part.
MutMakeAssemblyIdxKey(idx, ps, u) ==
  LET u1 == NextRand(u)
      u2 == NextRand(u1)
      u3 == NextRand(u2)
      u4 == NextRand(u3)
      u5 == NextRand(u4)
      part == choice(ps, u1)
  IN  [rec |-> [assembly_id |-> FormatId("ASM", idx),
                part_id |-> FormatId("PART", idx),
                assembly_step |-> choice(ASSEMBLY_STEPS, u2),
                torque_nm |-> Uniform(10000, 1500000, u3),
                operator |-> choice(OPERATORS, u4),
                timestamp |-> part.created_at + Hours(Randint(1, 500, u5))],
       rng |-> u5]

\* The body of generate_assemblies' loop for one idx over a non-empty parts.
MakeAssembly(idx, ps, u) ==
  LET u1 == NextRand(u)
      u2 == NextRand(u1)
      u3 == NextRand(u2)
      u4 == NextRand(u3)
      u5 == NextRand(u4)
      part == choice(ps, u1)
  IN  [rec |-> [assembly_id |-> FormatId("ASM", idx),
                part_id |-> part.part_id,
                assembly_step |-> choice(ASSEMBLY_STEPS, u2),
                torque_nm |-> Uniform(10000, 1500000, u3),
                operator |-> choice(OPERATORS, u4),
                timestamp |-> part.created_at + Hours(Randint(1, 500, u5))],
       rng |-> u5]

\* The body of generate_measurements' loop.
MakeMeasurement(idx, ps, u) ==
  LET u1 == NextRand(u)
      u2 == NextRand(u1)
      u3 == NextRand(u2)
      u4 == NextRand(u3)
      part == choice(ps, u1)
      type_units == choice(MEASUREMENT_TYPES, u2)
  IN  [rec |-> [measurement_id |-> FormatId("MEAS", idx),
                part_id |-> part.part_id,
                measurement_type |-> type_units[1],
                value |-> Uniform(0, 10000000, u3),
                units |-> type_units[2],
                measured_at |-> part.created_at + Hours(Randint(2, 720, u4))],
       rng |-> u4]

\* A defect: the qualification date is put after the part's creation.
MutMakeSupplierLater(idx, ps, u) ==
  LET u1 == NextRand(u)
      u2 == NextRand(u1)
      u3 == NextRand(u2)
      u4 == NextRand(u3)
      u5 == NextRand(u4)
      part == choice(ps, u1)
  IN  [rec |-> [supplier_part_id |-> FormatId("SUP", idx),
                part_id |-> part.part_id,
                supplier_name |-> choice(SUPPLIERS, u2),
                cost_usd |-> Uniform(250000, 100000000, u3),
                lead_time_days |-> Randint(1, 120, u4),
                qualified_on |-> part.created_at + Days(Randint(0, 60, u5))],
       rng |-> u5]

\* The body of generate_supplier_relationships' loop.
MakeSupplier(idx, ps, u) ==
  LET u1 == NextRand(u)
      u2 == NextRand(u1)
      u3 == NextRand(u2)
      u4 == NextRand(u3)
      u5 == NextRand(u4)
      part == choice(ps, u1)
  IN  [rec |-> [supplier_part_id |-> FormatId("SUP", idx),
                part_id |-> part.part_id,
                supplier_name |-> choice(SUPPLIERS, u2),
                cost_usd |-> Uniform(250000, 100000000, u3),
                lead_time_days |-> Randint(1, 120, u4),
                qualified_on |-> part.created_at - Days(Randint(0, 60, u5))],
       rng |-> u5]

MakeDependent(table, idx, ps, u) ==
  CASE table = "assemblies" -> MakeAssembly(idx, ps, u)
    [] table = "measurements" -> MakeMeasurement(idx, ps, u)
    [] OTHER -> MakeSupplier(idx, ps, u)

\* The loop of a dependent generator. random.choice(parts) raises IndexError
\* on an empty parts, in the first iteration.
RECURSIVE generate_dependent_loop(_, _, _, _, _, _)
generate_dependent_loop(table, idx, count, ps, acc, u) ==
  IF idx > count THEN [raised |-> "none", result |-> acc, rng |-> u]
  ELSE IF ps = <<>> THEN [raised |-> "IndexError", result |-> <<>>, rng |-> u]
  ELSE LET made == MakeDependent(table, idx, ps, u)
       IN  generate_dependent_loop(table, idx + 1, count, ps,
                                   Append(acc, made.rec), made.rng)

generate_assemblies(ps, count, u) ==
  generate_dependent_loop("assemblies", 1, count, ps, <<>>, u)

\* A defect: an empty parts is answered with an empty list instead of an error.
MutGenerateMeasurementsNoRaise(ps, count, u) ==
  IF ps = <<>> THEN [raised |-> "none", result |-> <<>>, rng |-> u]
  ELSE generate_dependent_loop("measurements", 1, count, ps, <<>>, u)

generate_measurements(ps, count, u) ==
  generate_dependent_loop("measurements", 1, count, ps, <<>>, u)

generate_supplier_relationships(ps, count, u) ==
  generate_dependent_loop("supplier_relationships", 1, count, ps, <<>>, u)

\* -------------------------------------------------------------- files
Tables == <<"parts", "assemblies", "measurements", "supplier_relationships">>
TableSet == {Tables[i] : i \in 1..Len(Tables)}

\* The header rows main passes to write_csv.
Headers(table) ==
  CASE table = "parts" ->
         <<"part_id", "part_number", "description", "weight_kg", "material",
           "created_at">>
    [] table = "assemblies" ->
         <<"assembly_id", "part_id", "assembly_step", "torque_nm", "operator",
           "timestamp">>
    [] table = "measurements" ->
         <<"measurement_id", "part_id", "measurement_type", "value", "units",
           "measured_at">>
    [] OTHER ->
         <<"supplier_part_id", "part_id", "supplier_name", "cost_usd",
           "lead_time_days", "qualified_on">>

\* A file of the output directory: whether it exists, and its rows.
NoFile == [exists |-> FALSE, rows |-> <<>>]
\* What an earlier, unrelated run may have left under the same name.
StaleFile == [exists |-> TRUE, rows |-> << <<"stale">> >>]

\* A defect: nothing is written (not even the header) when there are no rows.
MutWriteCsvSkipsEmpty(headers, rows) ==
  IF rows = <<>> THEN [exists |-> TRUE, rows |-> <<>>]
  ELSE [exists |-> TRUE, rows |-> <<headers>> \o rows]

\* A defect: the row sequence is not consumed to its end.
MutWriteCsvStopsEarly(headers, rows) ==
  [exists |-> TRUE,
   rows |-> IF rows = <<>> THEN <<headers>> ELSE <<headers, Head(rows)>>]

\* write_csv(path, headers, rows) when nothing fails: the file is created or
\* truncated, then holds the header row followed by every row.
write_csv(headers, rows) == [exists |-> TRUE, rows |-> <<headers>> \o rows]

\* write_csv when open() fails leaves the file as it was; when a write, the
\* flush or the close fails, the file was truncated and holds the first n rows
\* of what was being written.
TornFile(headers, rows, n) ==
  [exists |-> TRUE, rows |-> SubSeq(<<headers>> \o rows, 1, n)]

\* -------------------------------------------------------------- state
VARIABLES
  args,          \* args[r]: the parsed command line of run r
  clock,         \* clock[r]: what datetime.now() reads during run r
  rng,           \* rng[r]: the state of the process's random source
  pc,            \* pc[r]: the statement of main that run r executes next
  parts,         \* the locals of main: the lists the generators returned
  assemblies,
  measurements,
  suppliers,
  bound,         \* bound[r]: the locals of main that have been assigned
  dir,           \* dir[r]: whether the output directory exists
  files,         \* files[r][table]: the file <table>.csv of the output directory
  stdout,        \* stdout[r]: the lines printed
  err            \* err[r]: the exception that ended the run, and where

vars ==
  <<args, clock, rng, pc, parts, assemblies, measurements, suppliers, bound, dir,
    files, stdout, err>>

Counts == -1..MaxCount
Seeds == 0..MaxSeed
Clocks == 0..MaxClock
\* The states the operating system's entropy may seed the random source with.
Entropy == {0, RngMax}

\* --seed: absent (default None) or an integer
SeedArgs ==
  {[given |-> FALSE, value |-> 0]} \cup {[given |-> TRUE, value |-> s] : s \in Seeds}

\* parse_args(): the Namespace (output is the directory dir and files describe)
ArgSpace(counts, partCounts) ==
  [seed : SeedArgs, parts : partCounts, assemblies : counts,
   measurements : counts, suppliers : counts]

NoError == [kind |-> "none", at |-> "none"]
Terminal == {"done", "failed"}

\* The output directory before the run: missing, or holding files of an
\* earlier run.
Disks ==
  {[d |-> FALSE, f |-> [t \in TableSet |-> NoFile]],
   [d |-> TRUE, f |-> [t \in TableSet |-> StaleFile]]}

\* The state of run r when the process starts: nothing assigned, the random
\* source seeded by the operating system.
Fresh ==
  /\ pc = [r \in Runs |-> "seed"]
  /\ parts = [r \in Runs |-> <<>>]
  /\ assemblies = [r \in Runs |-> <<>>]
  /\ measurements = [r \in Runs |-> <<>>]
  /\ suppliers = [r \in Runs |-> <<>>]
  /\ bound = [r \in Runs |-> {}]
  /\ stdout = [r \in Runs |-> <<>>]
  /\ err = [r \in Runs |-> NoError]

IdleArgs ==
  [seed |-> [given |-> FALSE, value |-> 0], parts |-> 0, assemblies |-> 0,
   measurements |-> 0, suppliers |-> 0]

\* One run (run 1) given counts of the set counts, reading one of clocks and
\* started with one of entropy; run 2 is never started.
InitWith(counts, clocks, entropy) ==
  /\ Fresh
  /\ \E a \in ArgSpace(counts, counts) :
       args = [r \in Runs |-> IF r = 1 THEN a ELSE IdleArgs]
  /\ \E c \in clocks : clock = [r \in Runs |-> IF r = 1 THEN c ELSE 0]
  /\ \E e \in entropy : rng = [r \in Runs |-> IF r = 1 THEN e ELSE 0]
  /\ \E k \in Disks :
       /\ dir = [r \in Runs |-> IF r = 1 THEN k.d ELSE FALSE]
       /\ files = [r \in Runs |-> IF r = 1 THEN k.f ELSE [t \in TableSet |-> NoFile]]

Init == InitWith(Counts, {0, MaxClock}, Entropy)

\* ------------------------------------------------------------ actions
\* Run r may take a step: runs execute one after the other.
Turn(r) == IF r = 1 THEN TRUE ELSE pc[r - 1] \in Terminal

Raise(r, kind) ==
  /\ err' = [err EXCEPT ![r] = [kind |-> kind, at |-> pc[r]]]
  /\ pc' = [pc EXCEPT ![r] = "failed"]

\* A defect: the seed given is not applied.
MutSeedIgnored(r) ==
  /\ Turn(r)
  /\ pc[r] = "seed"
  /\ pc' = [pc EXCEPT ![r] = "mkdir"]
  /\ UNCHANGED <<args, clock, rng, parts, assemblies, measurements, suppliers,
                 bound, dir, files, stdout, err>>

\* main, lines 289-290: if args.seed is not None: random.seed(args.seed)
Seed(r) ==
  /\ Turn(r)
  /\ pc[r] = "seed"
  /\ rng' = [rng EXCEPT ![r] = IF args[r].seed.given
                                 THEN SeedState(args[r].seed.value) ELSE @]
  /\ pc' = [pc EXCEPT ![r] = "mkdir"]
  /\ UNCHANGED <<args, clock, parts, assemblies, measurements, suppliers, bound,
                 dir, files, stdout, err>>

\* ensure_output_dir(args.output): mkdir(parents=True, exist_ok=True)
EnsureOutputDir(r) ==
  /\ Turn(r)
  /\ pc[r] = "mkdir"
  /\ dir' = [dir EXCEPT ![r] = TRUE]
  /\ pc' = [pc EXCEPT ![r] = "gen_parts"]
  /\ UNCHANGED <<args, clock, rng, parts, assemblies, measurements, suppliers,
                 bound, files, stdout, err>>

\* mkdir raises OSError (no permission, a file in the way, ...)
EnsureOutputDirFails(r) ==
  /\ Turn(r)
  /\ pc[r] = "mkdir"
  /\ Raise(r, "OSError")
  /\ UNCHANGED <<args, clock, rng, parts, assemblies, measurements, suppliers,
                 bound, dir, files, stdout>>

\* A defect: an exception of a generator is recorded and main goes on.
MutAssignSwallows(r, g, name, next) ==
  IF g.raised = "none"
  THEN /\ rng' = [rng EXCEPT ![r] = g.rng]
       /\ bound' = [bound EXCEPT ![r] = @ \cup {name}]
       /\ pc' = [pc EXCEPT ![r] = next]
       /\ UNCHANGED err
  ELSE /\ err' = [err EXCEPT ![r] = [kind |-> g.raised, at |-> pc[r]]]
       /\ pc' = [pc EXCEPT ![r] = next]
       /\ UNCHANGED <<rng, bound>>

\* name = <generator call>: when the call g returned, main assigns the local
\* and goes on to the next statement; when it raised, the exception leaves main.
Assign(r, g, name, next) ==
  IF g.raised = "none"
  THEN /\ rng' = [rng EXCEPT ![r] = g.rng]
       /\ bound' = [bound EXCEPT ![r] = @ \cup {name}]
       /\ pc' = [pc EXCEPT ![r] = next]
       /\ UNCHANGED err
  ELSE /\ Raise(r, g.raised)
       /\ UNCHANGED <<rng, bound>>

\* The value of a local after name = <generator call>
Assigned(old, g) == IF g.raised = "none" THEN g.result ELSE old

\* parts = generate_parts(args.parts)
GenerateParts(r) ==
  /\ Turn(r)
  /\ pc[r] = "gen_parts"
  /\ LET g == generate_parts(args[r].parts, clock[r], rng[r])
     IN  /\ Assign(r, g, "parts", "write_parts")
         /\ parts' = [parts EXCEPT ![r] = Assigned(@, g)]
  /\ UNCHANGED <<args, clock, assemblies, measurements, suppliers, dir, files,
                 stdout>>

\* assemblies = generate_assemblies(parts, args.assemblies)
GenerateAssemblies(r) ==
  /\ Turn(r)
  /\ pc[r] = "gen_assemblies"
  /\ LET g == generate_assemblies(parts[r], args[r].assemblies, rng[r])
     IN  /\ Assign(r, g, "assemblies", "write_assemblies")
         /\ assemblies' = [assemblies EXCEPT ![r] = Assigned(@, g)]
  /\ UNCHANGED <<args, clock, parts, measurements, suppliers, dir, files, stdout>>

\* measurements = generate_measurements(parts, args.measurements)
GenerateMeasurements(r) ==
  /\ Turn(r)
  /\ pc[r] = "gen_measurements"
  /\ LET g == generate_measurements(parts[r], args[r].measurements, rng[r])
     IN  /\ Assign(r, g, "measurements", "write_measurements")
         /\ measurements' = [measurements EXCEPT ![r] = Assigned(@, g)]
  /\ UNCHANGED <<args, clock, parts, assemblies, suppliers, dir, files, stdout>>

\* suppliers = generate_supplier_relationships(parts, args.suppliers)
GenerateSuppliers(r) ==
  /\ Turn(r)
  /\ pc[r] = "gen_supplier_relationships"
  /\ LET g == generate_supplier_relationships(parts[r], args[r].suppliers, rng[r])
     IN  /\ Assign(r, g, "suppliers", "write_supplier_relationships")
         /\ suppliers' = [suppliers EXCEPT ![r] = Assigned(@, g)]
  /\ UNCHANGED <<args, clock, parts, assemblies, measurements, dir, files, stdout>>

\* The statements of main, in order.
Statements ==
  <<"seed", "mkdir", "gen_parts", "write_parts", "gen_assemblies",
    "write_assemblies", "gen_measurements", "write_measurements",
    "gen_supplier_relationships", "write_supplier_relationships", "print", "done">>

\* The list main passes to the write of a table.
Records(r, table) ==
  CASE table = "parts" -> parts[r]
    [] table = "assemblies" -> assemblies[r]
    [] table = "measurements" -> measurements[r]
    [] OTHER -> suppliers[r]

\* The statement after the write of a table.
AfterWrite(table) ==
  CASE table = "parts" -> "gen_assemblies"
    [] table = "assemblies" -> "gen_measurements"
    [] table = "measurements" -> "gen_supplier_relationships"
    [] OTHER -> "print"

WriteLabel(table) ==
  CASE table = "parts" -> "write_parts"
    [] table = "assemblies" -> "write_assemblies"
    [] table = "measurements" -> "write_measurements"
    [] OTHER -> "write_supplier_relationships"

\* write_csv(args.output / "<table>.csv", [...], (x.to_row() for x in xs))
WriteTable(r, table) ==
  /\ Turn(r)
  /\ pc[r] = WriteLabel(table)
  /\ files' = [files EXCEPT ![r][table] =
                 write_csv(Headers(table), Rows(Records(r, table), table))]
  /\ pc' = [pc EXCEPT ![r] = AfterWrite(table)]
  /\ UNCHANGED <<args, clock, rng, parts, assemblies, measurements, suppliers,
                 bound, dir, stdout, err>>

WriteParts(r) == WriteTable(r, "parts")
WriteAssemblies(r) == WriteTable(r, "assemblies")
WriteMeasurements(r) == WriteTable(r, "measurements")
WriteSuppliers(r) == WriteTable(r, "supplier_relationships")

\* write_csv raises OSError in open(): the file is as it was.
WriteCsvOpenFails(r) ==
  /\ Turn(r)
  /\ \E table \in TableSet : pc[r] = WriteLabel(table)
  /\ Raise(r, "OSError")
  /\ UNCHANGED <<args, clock, rng, parts, assemblies, measurements, suppliers,
                 bound, dir, files, stdout>>

\* write_csv raises OSError after open(): the file holds some prefix of the
\* rows, possibly none.
WriteCsvWriteFails(r) ==
  /\ Turn(r)
  /\ \E table \in TableSet :
       /\ pc[r] = WriteLabel(table)
       /\ \E n \in 0..(1 + Len(Records(r, table))) :
            files' = [files EXCEPT ![r][table] =
                        TornFile(Headers(table), Rows(Records(r, table), table), n)]
  /\ Raise(r, "OSError")
  /\ UNCHANGED <<args, clock, rng, parts, assemblies, measurements, suppliers,
                 bound, dir, stdout>>

\* print(f"Wrote CSV files to {args.output.resolve()}")
PrintDone(r) ==
  /\ Turn(r)
  /\ pc[r] = "print"
  /\ stdout' = [stdout EXCEPT ![r] = Append(@, "Wrote CSV files to")]
  /\ pc' = [pc EXCEPT ![r] = "done"]
  /\ UNCHANGED <<args, clock, rng, parts, assemblies, measurements, suppliers,
                 bound, dir, files, err>>

\* A run of main in an environment where I/O may fail.
Next ==
  \/ Seed(1)
  \/ EnsureOutputDir(1)
  \/ EnsureOutputDirFails(1)
  \/ GenerateParts(1)
  \/ WriteParts(1)
  \/ GenerateAssemblies(1)
  \/ WriteAssemblies(1)
  \/ GenerateMeasurements(1)
  \/ WriteMeasurements(1)
  \/ GenerateSuppliers(1)
  \/ WriteSuppliers(1)
  \/ WriteCsvOpenFails(1)
  \/ WriteCsvWriteFails(1)
  \/ PrintDone(1)

Spec == Init /\ [][Next]_vars

\* A run given counts that are not negative, in an environment where I/O
\* does not fail. main runs to its end or to an exception: no statement waits.
FairInit == InitWith(0..MaxCount, {0}, {0})

FairNext ==
  \/ Seed(1)
  \/ EnsureOutputDir(1)
  \/ GenerateParts(1)
  \/ WriteParts(1)
  \/ GenerateAssemblies(1)
  \/ WriteAssemblies(1)
  \/ GenerateMeasurements(1)
  \/ WriteMeasurements(1)
  \/ GenerateSuppliers(1)
  \/ WriteSuppliers(1)
  \/ PrintDone(1)

FairSpec == FairInit /\ [][FairNext]_vars /\ WF_vars(FairNext)

\* ----------------------------------------------------------- two runs
\* Two runs of the program started with the same --seed (or both without one),
\* one after the other, each into its own missing
\* output directory, in an environment where I/O does not fail. The second run
\* reads the clock no earlier than the first.
PairCounts == {0, MaxCount}

PairInit ==
  /\ Fresh
  /\ \E sd \in SeedArgs :
       args \in [Runs -> {a \in ArgSpace(PairCounts, PairCounts) : a.seed = sd}]
  /\ clock \in [Runs -> Clocks]
  /\ clock[1] <= clock[2]
  /\ rng \in [Runs -> Entropy]
  /\ dir = [r \in Runs |-> FALSE]
  /\ files = [r \in Runs |-> [t \in TableSet |-> NoFile]]

PairNext ==
  \E r \in Runs :
    \/ Seed(r)
    \/ EnsureOutputDir(r)
    \/ GenerateParts(r)
    \/ WriteParts(r)
    \/ GenerateAssemblies(r)
    \/ WriteAssemblies(r)
    \/ GenerateMeasurements(r)
    \/ WriteMeasurements(r)
    \/ GenerateSuppliers(r)
    \/ WriteSuppliers(r)
    \/ PrintDone(r)

PairSpec == PairInit /\ [][PairNext]_vars

\* ========================================================= properties
Dependents == {"assemblies", "measurements", "supplier_relationships"}

\* The local of main that holds a table's records, and the option that
\* counts them.
LocalName(table) == IF table = "supplier_relationships" THEN "suppliers" ELSE table

Count(r, table) ==
  CASE table = "parts" -> args[r].parts
    [] table = "assemblies" -> args[r].assemblies
    [] table = "measurements" -> args[r].measurements
    [] OTHER -> args[r].suppliers

GenLabel(table) ==
  CASE table = "parts" -> "gen_parts"
    [] table = "assemblies" -> "gen_assemblies"
    [] table = "measurements" -> "gen_measurements"
    [] OTHER -> "gen_supplier_relationships"

Prefix(table) ==
  CASE table = "parts" -> "PART"
    [] table = "assemblies" -> "ASM"
    [] table = "measurements" -> "MEAS"
    [] OTHER -> "SUP"

\* The identifier of a record of a table.
IdOf(table, rec) ==
  CASE table = "parts" -> rec.part_id
    [] table = "assemblies" -> rec.assembly_id
    [] table = "measurements" -> rec.measurement_id
    [] OTHER -> rec.supplier_part_id

\* The timestamp of a dependent record.
StampOf(table, rec) ==
  CASE table = "assemblies" -> rec.timestamp
    [] table = "measurements" -> rec.measured_at
    [] OTHER -> rec.qualified_on

Pos(label) == CHOOSE i \in 1..Len(Statements) : Statements[i] = label

\* How far run r got: the statement it is at, or the one that raised.
Progress(r) == IF pc[r] = "failed" THEN Pos(err[r].at) ELSE Pos(pc[r])

\* The generator of a table has returned; write_csv for it has returned.
Generated(r, table) == LocalName(table) \in bound[r]
Written(r, table) == Progress(r) > Pos(WriteLabel(table))

\* The number a sequence of decimal digits denotes.
RECURSIVE DigitsValue(_)
DigitsValue(ds) ==
  IF ds = <<>> THEN 0
  ELSE 10 * DigitsValue(SubSeq(ds, 1, Len(ds) - 1)) + ds[Len(ds)]

PartIds(r) == {parts[r][i].part_id : i \in 1..Len(parts[r])}

\* C1: referential integrity. Every record of assemblies, measurements and
\* suppliers carries the part_id of a part of the list generate_parts
\* returned, that list was assigned before the dependent list was, and the
\* part_id lies in PART-000001..PART-<parts count>.
C1_ReferentialIntegrity ==
  \A t \in Dependents :
    /\ Generated(1, t) => Generated(1, "parts")
    /\ \A i \in 1..Len(Records(1, t)) :
         LET fk == Records(1, t)[i].part_id
         IN  /\ fk \in PartIds(1)
             /\ fk.prefix = "PART"
             /\ Len(fk.digits) = 6
             /\ DigitsValue(fk.digits) \in 1..args[1].parts

\* The three dependent lists are non-empty and reference more than one part.
C1_Witness ==
  /\ \A t \in Dependents : Len(Records(1, t)) >= 2
  /\ Len(parts[1]) >= 2
  /\ \E t1, t2 \in Dependents :
       \E i \in 1..Len(Records(1, t1)), j \in 1..Len(Records(1, t2)) :
         Records(1, t1)[i].part_id # Records(1, t2)[j].part_id

\* C3: for a count N >= 0 a generator that has returned has returned exactly
\* N records, the i-th with the identifier <PREFIX>-<i padded to 6 digits>;
\* the identifiers of a table are pairwise distinct and strictly increasing.
C3_SequentialIds ==
  \A t \in TableSet :
    (Generated(1, t) /\ Count(1, t) >= 0) =>
      LET recs == Records(1, t)
      IN  /\ Len(recs) = Count(1, t)
          /\ \A i \in 1..Len(recs) :
               /\ IdOf(t, recs[i]).prefix = Prefix(t)
               /\ Len(IdOf(t, recs[i]).digits) = 6
               /\ DigitsValue(IdOf(t, recs[i]).digits) = i
          /\ \A i, j \in 1..Len(recs) :
               i < j =>
                 /\ IdOf(t, recs[i]) # IdOf(t, recs[j])
                 /\ DigitsValue(IdOf(t, recs[i]).digits)
                      < DigitsValue(IdOf(t, recs[j]).digits)

\* All four generators have returned MaxCount records.
C3_Witness ==
  /\ MaxCount >= 2
  /\ \A t \in TableSet : Generated(1, t) /\ Len(Records(1, t)) = MaxCount

\* The exceptions that are of the InvalidArgument kind (not of the IOFailure
\* kind, which is OSError).
InvalidArgumentKind == {"IndexError", "ValueError", "TypeError"}

\* A dependent generator was called: it returned or it raised.
Called(r, table) == Generated(r, table) \/ err[r].at = GenLabel(table)

\* C4: a dependent generator called with an empty part list and N > 0 raises
\* an error of the InvalidArgument kind and returns no records; called with
\* an empty part list and N = 0 it returns the empty list.
C4_EmptyParts ==
  \A t \in Dependents :
    (Called(1, t) /\ parts[1] = <<>>) =>
      /\ Count(1, t) > 0 =>
           /\ err[1].at = GenLabel(t)
           /\ err[1].kind \in InvalidArgumentKind
           /\ ~Generated(1, t)
           /\ Records(1, t) = <<>>
      /\ Count(1, t) = 0 =>
           /\ err[1].at # GenLabel(t)
           /\ Generated(1, t)
           /\ Records(1, t) = <<>>

\* generate_assemblies returned [] for no parts and N = 0, then
\* generate_measurements raised for no parts and N > 0.
C4_Witness ==
  /\ parts[1] = <<>>
  /\ Generated(1, "parts")
  /\ args[1].assemblies = 0
  /\ Generated(1, "assemblies")
  /\ args[1].measurements > 0
  /\ err[1].at = "gen_measurements"

\* A file holding the header row of its table and nothing else.
HeaderOnly(table) == [exists |-> TRUE, rows |-> <<Headers(table)>>]

\* The file write_csv leaves for the records main holds of a table.
Complete(r, table) ==
  [exists |-> TRUE, rows |-> <<Headers(table)>> \o Rows(Records(r, table), table)]

\* C5, as written: whenever a run has ended (here: other than by an I/O
\* failure), the file of every table whose count is 0 holds exactly the
\* header row.
C5_Original ==
  (pc[1] \in Terminal /\ err[1].kind # "OSError") =>
    \A t \in TableSet : Count(1, t) = 0 => files[1][t] = HeaderOnly(t)

\* C5, amended: for every table whose count is 0, whatever the other counts,
\* once write_csv for that table has returned its file holds exactly the
\* header row and no data row, and keeps it to the end of the run.
C5_ZeroCountHeaderOnly ==
  \A t \in TableSet :
    (Count(1, t) = 0 /\ Written(1, t)) => files[1][t] = HeaderOnly(t)

\* A completed run with parts and no measurements, over stale files.
C5_Witness ==
  /\ pc[1] = "done"
  /\ args[1].parts = MaxCount
  /\ args[1].measurements = 0
  /\ files[1]["measurements"] = HeaderOnly("measurements")
  /\ Len(files[1]["parts"].rows) = 1 + MaxCount

\* C6, as written: a run given a negative count never reports completion.
C6_Original ==
  (\E t \in TableSet : Count(1, t) < 0) => (pc[1] # "done" /\ stdout[1] = <<>>)

\* C6, amended: a negative count is not rejected. The generator of that table
\* returns the empty list (its file, once written, holds only the header row),
\* the negative count raises nothing, and the run ends in failure only by an
\* I/O failure or by a dependent table with a positive count meeting an empty
\* part list.
C6_NegativeIsEmpty ==
  /\ \A t \in TableSet :
       Count(1, t) < 0 =>
         /\ Generated(1, t) => Records(1, t) = <<>>
         /\ Written(1, t) => files[1][t] = HeaderOnly(t)
         /\ err[1].at # GenLabel(t)
  /\ ((\E t \in TableSet : Count(1, t) < 0) /\ pc[1] = "failed") =>
       \/ err[1].kind = "OSError"
       \/ /\ err[1].kind = "IndexError"
          /\ parts[1] = <<>>
          /\ \E t \in Dependents : err[1].at = GenLabel(t) /\ Count(1, t) > 0

\* A run given --parts -1 and --suppliers -1 reports completion.
C6_Witness ==
  /\ args[1].parts = -1
  /\ args[1].suppliers = -1
  /\ pc[1] = "done"
  /\ Len(stdout[1]) = 1
  /\ files[1]["parts"] = HeaderOnly("parts")

\* The state of a run that an exception has ended: the files of the tables
\* written before are complete, the tables after are neither generated nor
\* written, and nothing was printed.
C7_Failed ==
  err[1].kind # "none" =>
    /\ pc[1] = "failed"
    /\ stdout[1] = <<>>
    /\ \A t \in TableSet :
         /\ Pos(WriteLabel(t)) < Pos(err[1].at) =>
              Generated(1, t) /\ files[1][t] = Complete(1, t)
         /\ Pos(GenLabel(t)) >= Pos(err[1].at) =>
              ~Generated(1, t) /\ Records(1, t) = <<>>
         /\ Pos(WriteLabel(t)) > Pos(err[1].at) =>
              files[1][t] \in {NoFile, StaleFile}

\* C7: errors are fatal and nothing is rolled back. When generating or writing
\* table k fails the run stops there: the files of the earlier tables stay
\* complete, no later table is generated or written, the completion message
\* is never printed, and nothing is retried (no step follows the failure).
C7_FatalNoRollback ==
  /\ []C7_Failed
  /\ [][err[1].kind # "none" => UNCHANGED vars]_vars

\* The write of measurements.csv failed half way, after parts.csv and
\* assemblies.csv were written.
C7_Witness ==
  /\ err[1] = [kind |-> "OSError", at |-> "write_measurements"]
  /\ Len(parts[1]) >= 1
  /\ Len(assemblies[1]) >= 1
  /\ Len(measurements[1]) >= 1
  /\ Len(files[1]["measurements"].rows) = 1
  /\ files[1]["assemblies"] = Complete(1, "assemblies")

\* The counts C8 is about: P >= 1 and A, M, S >= 0, or all four 0.
C8_Counts ==
  \/ args[1].parts >= 1 /\ \A t \in Dependents : Count(1, t) >= 0
  \/ \A t \in TableSet : Count(1, t) = 0

C8_Printed ==
  (C8_Counts /\ stdout[1] # <<>>) =>
    /\ Len(stdout[1]) = 1
    /\ pc[1] = "done"
    /\ \A t \in TableSet :
         /\ files[1][t] = Complete(1, t)
         /\ Len(files[1][t].rows) = 1 + Count(1, t)

\* C8: for these counts, absent an I/O failure, the run ends by printing the
\* completion message; the message is printed once, after the fourth file was
\* written, and then every file holds its header row followed by its
\* configured number of rows in generation order.
C8_SuccessfulCompletion ==
  /\ []C8_Printed
  /\ [](C8_Counts => <>(pc[1] = "done"))

\* A completed run with MaxCount rows in every table.
C8_Witness ==
  /\ pc[1] = "done"
  /\ Len(stdout[1]) = 1
  /\ \A t \in TableSet : Count(1, t) = MaxCount /\ Len(files[1][t].rows) = 1 + MaxCount

\* The part a dependent record references.
PartOf(r, rec) ==
  parts[r][CHOOSE i \in 1..Len(parts[r]) : parts[r][i].part_id = rec.part_id]

\* C9: an assembly's timestamp is its part's created_at plus 1..500 whole
\* hours, a measurement's measured_at is created_at plus 2..720 whole hours, a
\* supplier relationship's qualified_on is created_at minus 0..60 whole days,
\* and every created_at lies between the base date (now minus 365 days) and
\* the base date plus 365 days.
C9_Timestamps ==
  /\ \A i \in 1..Len(parts[1]) :
       LET base_date == clock[1] - 365 * 86400 * TicksPerSecond
       IN  /\ base_date <= parts[1][i].created_at
           /\ parts[1][i].created_at <= base_date + 365 * 86400 * TicksPerSecond
  /\ \A t \in Dependents :
       \A i \in 1..Len(Records(1, t)) :
         LET rec == Records(1, t)[i]
             d == StampOf(t, rec) - PartOf(1, rec).created_at
             hour == 3600 * TicksPerSecond
             day == 86400 * TicksPerSecond
         IN  CASE t = "assemblies" ->
                    d > 0 /\ d % hour = 0 /\ d \div hour \in 1..500
               [] t = "measurements" ->
                    d > 0 /\ d % hour = 0 /\ d \div hour \in 2..720
               [] OTHER ->
                    d <= 0 /\ (-d) % day = 0 /\ (-d) \div day \in 0..60

\* Records of all three dependent tables exist, one of them a supplier
\* relationship qualified before its part was created.
C9_Witness ==
  /\ \A t \in Dependents : Len(Records(1, t)) >= 1
  /\ \E i \in 1..Len(suppliers[1]) :
       suppliers[1][i].qualified_on < PartOf(1, suppliers[1][i]).created_at

\* Both runs were given the same seed.
SameSeed == args[1].seed.given /\ args[2].seed = args[1].seed

\* C2, as written: two completed runs with the same seed and the same counts,
\* whatever their clocks read, wrote identical files.
C2_Original ==
  (pc[1] = "done" /\ pc[2] = "done" /\ SameSeed /\ args[1] = args[2]) =>
    files[1] = files[2]

\* C10: for two runs with the same seed and the same clock reading, the file
\* of a table is the same in both whenever the counts of that table and of the
\* tables generated before it are the same, whatever the counts of the tables
\* generated after it.
C10_PrefixIndependence ==
  (SameSeed /\ clock[1] = clock[2]) =>
    \A k \in 1..Len(Tables) :
      (/\ Written(1, Tables[k])
       /\ Written(2, Tables[k])
       /\ \A j \in 1..k : Count(1, Tables[j]) = Count(2, Tables[j])) =>
        files[1][Tables[k]] = files[2][Tables[k]]

\* Two completed runs with the same seed, clock, parts and assemblies counts,
\* and different measurements and suppliers counts.
C10_Witness ==
  /\ pc[1] = "done" /\ pc[2] = "done"
  /\ SameSeed /\ clock[1] = clock[2]
  /\ args[1].parts = MaxCount /\ args[2].parts = MaxCount
  /\ args[1].assemblies = MaxCount /\ args[2].assemblies = MaxCount
  /\ args[1].measurements # args[2].measurements
  /\ args[1].suppliers # args[2].suppliers
  /\ files[1]["assemblies"] = files[2]["assemblies"]
  /\ Len(files[1]["assemblies"].rows) = 1 + MaxCount
====
